---- MODULE Spec2Model ----
(***************************************************************************)
(* Model of the Excel Station Processor (src/src/App.jsx): the React       *)
(* component ExcelProcessor, its handlers handleFileChange,                 *)
(* handleMappingUpdate and processExcel, and the per-sheet pipeline of      *)
(* processExcel (station counting, division aggregation, grid layout).      *)
(*                                                                          *)
(* JavaScript strings are sequences of one-character strings, so that       *)
(* trim, toUpperCase, toLowerCase, sort and localeCompare are computed      *)
(* character by character.                                                  *)
(***************************************************************************)
EXTENDS Integers, Sequences, FiniteSets, TLC

VARIABLES
    \* React state of ExcelProcessor (App.jsx 13-19)
    file, processing, error, success, showMapping, divisionMapping, mappingText,
    \* the processExcel call in flight: its position and what its closure captured
    run,
    \* the anchor element clicked by the last completed run (App.jsx 243-248)
    link,
    \* locals of one iteration of workbook.SheetNames.forEach (App.jsx 91-231)
    stage, jsonData, stationCounts, divisionData, ws_data, thrown

uiVars == <<file, processing, error, success, showMapping, divisionMapping, mappingText, run, link>>
sheetVars == <<stage, jsonData, stationCounts, divisionData, ws_data, thrown>>
vars == <<uiVars, sheetVars>>

----------------------------------------------------------------------------
(* Bounds of the checked input space *)

MaxRecords == 3
MaxMembers == 2

----------------------------------------------------------------------------
(* JavaScript values *)

Str(s) == [t |-> "str", n |-> 0, s |-> s]
Num(n) == [t |-> "num", n |-> n, s |-> <<>>]
Undefined == [t |-> "undef", n |-> 0, s |-> <<>>]

Digits == <<"0", "1", "2", "3", "4", "5", "6", "7", "8", "9">>
Upper == <<"A", "B", "C", "D", "E", "F", "G", "H", "I", "J", "K", "L", "M",
           "N", "O", "P", "Q", "R", "S", "T", "U", "V", "W", "X", "Y", "Z">>
Lower == <<"a", "b", "c", "d", "e", "f", "g", "h", "i", "j", "k", "l", "m",
           "n", "o", "p", "q", "r", "s", "t", "u", "v", "w", "x", "y", "z">>

Range(f) == {f[i] : i \in DOMAIN f}
IndexIn(seq, c) == CHOOSE i \in DOMAIN seq : seq[i] = c

IsDigit(c) == c \in Range(Digits)
IsUpper(c) == c \in Range(Upper)
IsLower(c) == c \in Range(Lower)
IsSpace(c) == c = " "

\* UTF-16 code unit of a character (ASCII)
CodeUnit(c) ==
    IF IsSpace(c) THEN 32
    ELSE IF c = "." THEN 46
    ELSE IF IsDigit(c) THEN 47 + IndexIn(Digits, c)
    ELSE IF IsUpper(c) THEN 64 + IndexIn(Upper, c)
    ELSE 96 + IndexIn(Lower, c)

ToUpperCase(s) == [i \in DOMAIN s |-> IF IsLower(s[i]) THEN Upper[IndexIn(Lower, s[i])] ELSE s[i]]
ToLowerCase(s) == [i \in DOMAIN s |-> IF IsUpper(s[i]) THEN Lower[IndexIn(Upper, s[i])] ELSE s[i]]

RECURSIVE TrimStart(_)
TrimStart(s) == IF s # <<>> /\ IsSpace(Head(s)) THEN TrimStart(Tail(s)) ELSE s

RECURSIVE TrimEnd(_)
TrimEnd(s) ==
    IF s # <<>> /\ IsSpace(s[Len(s)]) THEN TrimEnd(SubSeq(s, 1, Len(s) - 1)) ELSE s

Trim(s) == TrimEnd(TrimStart(s))

\* Number.prototype.toString for a non-negative integer
RECURSIVE NumToStr(_)
NumToStr(n) == IF n < 10 THEN <<Digits[n + 1]>> ELSE NumToStr(n \div 10) \o <<Digits[(n % 10) + 1]>>

\* String(v)
ToStringJS(v) ==
    IF v.t = "str" THEN v.s
    ELSE IF v.t = "num" THEN NumToStr(v.n)
    ELSE <<"u", "n", "d", "e", "f", "i", "n", "e", "d">>

\* ToBoolean(v): 0, "" and undefined are falsy
Truthy(v) ==
    IF v.t = "str" THEN v.s # <<>>
    ELSE IF v.t = "num" THEN v.n # 0
    ELSE FALSE

RECURSIVE DigitsToNum(_)
DigitsToNum(s) ==
    IF s = <<>> THEN 0 ELSE 10 * DigitsToNum(SubSeq(s, 1, Len(s) - 1)) + (IndexIn(Digits, s[Len(s)]) - 1)

\* a property key that is a canonical array index ("0", "7", "10", not "07")
IsArrayIndex(k) ==
    /\ k # <<>>
    /\ \A i \in DOMAIN k : IsDigit(k[i])
    /\ (Len(k) = 1 \/ k[1] # "0")
    /\ Len(k) <= 9

\* An ordinary object is the sequence of its [k, v] entries in property
\* enumeration order: array-index keys ascending, then the others in
\* insertion order.
ObjectKeys(obj) == [i \in DOMAIN obj |-> obj[i].k]
HasKey(obj, key) == \E i \in DOMAIN obj : obj[i].k = key
ObjGet(obj, key) == obj[CHOOSE i \in DOMAIN obj : obj[i].k = key].v

\* where a new key goes in the enumeration order
InsertPos(obj, key) ==
    IF IsArrayIndex(key)
    THEN Cardinality({i \in DOMAIN obj :
                        IsArrayIndex(obj[i].k) /\ DigitsToNum(obj[i].k) < DigitsToNum(key)}) + 1
    ELSE Len(obj) + 1

ObjSet(obj, key, val) ==
    IF HasKey(obj, key)
    THEN [i \in DOMAIN obj |-> IF obj[i].k = key THEN [k |-> key, v |-> val] ELSE obj[i]]
    ELSE LET p == InsertPos(obj, key)
         IN SubSeq(obj, 1, p - 1) \o <<[k |-> key, v |-> val]>> \o SubSeq(obj, p, Len(obj))

\* the sum of the values of an object's entries
RECURSIVE SumValues(_)
SumValues(obj) == IF obj = <<>> THEN 0 ELSE obj[1].v + SumValues(Tail(obj))

\* the least member of a non-empty set of indices (the first hit of
\* Array.prototype.find)
Least(hits) == CHOOSE i \in hits : \A j \in hits : i <= j

----------------------------------------------------------------------------
(* Comparison and sorting *)

RECURSIVE LexCmp(_, _)
LexCmp(x, y) ==
    IF x = <<>> /\ y = <<>> THEN 0
    ELSE IF x = <<>> THEN -1
    ELSE IF y = <<>> THEN 1
    ELSE IF Head(x) < Head(y) THEN -1
    ELSE IF Head(x) > Head(y) THEN 1
    ELSE LexCmp(Tail(x), Tail(y))

\* the default comparison of Array.prototype.sort: by UTF-16 code units
CodeUnitCompare(a, b) ==
    LexCmp([i \in DOMAIN a |-> CodeUnit(a[i])], [i \in DOMAIN b |-> CodeUnit(b[i])])

\* String.prototype.localeCompare under the root collation: primary weights
\* first (space < punctuation < digits < letters, letters without case), then
\* case (lower before upper)
PrimaryWeight(c) ==
    IF IsSpace(c) THEN 1
    ELSE IF c = "." THEN 2
    ELSE IF IsDigit(c) THEN 10 + IndexIn(Digits, c)
    ELSE IF IsUpper(c) THEN 30 + IndexIn(Upper, c)
    ELSE 30 + IndexIn(Lower, c)

CaseWeight(c) == IF IsUpper(c) THEN 1 ELSE 0

LocaleCompare(a, b) ==
    LET p == LexCmp([i \in DOMAIN a |-> PrimaryWeight(a[i])], [i \in DOMAIN b |-> PrimaryWeight(b[i])])
    IN IF p # 0 THEN p
       ELSE LexCmp([i \in DOMAIN a |-> CaseWeight(a[i])], [i \in DOMAIN b |-> CaseWeight(b[i])])

\* stable insertion of x into a sorted sequence
RECURSIVE InsertByCodeUnit(_, _)
InsertByCodeUnit(sorted, x) ==
    IF sorted = <<>> THEN <<x>>
    ELSE IF CodeUnitCompare(x, Head(sorted)) < 0 THEN <<x>> \o sorted
    ELSE <<Head(sorted)>> \o InsertByCodeUnit(Tail(sorted), x)

RECURSIVE SortDefault(_)
SortDefault(seq) ==
    IF seq = <<>> THEN <<>>
    ELSE InsertByCodeUnit(SortDefault(SubSeq(seq, 1, Len(seq) - 1)), seq[Len(seq)])

RECURSIVE InsertByLocale(_, _)
InsertByLocale(sorted, x) ==
    IF sorted = <<>> THEN <<x>>
    ELSE IF LocaleCompare(x, Head(sorted)) < 0 THEN <<x>> \o sorted
    ELSE <<Head(sorted)>> \o InsertByLocale(Tail(sorted), x)

RECURSIVE SortLocale(_)
SortLocale(seq) ==
    IF seq = <<>> THEN <<>>
    ELSE InsertByLocale(SortLocale(SubSeq(seq, 1, Len(seq) - 1)), seq[Len(seq)])

----------------------------------------------------------------------------
(* One iteration of workbook.SheetNames.forEach: station counting *)

STATION == <<"S", "T", "A", "T", "I", "O", "N">>

\* row[key], undefined when the row has no such property
RowGet(row, key) == IF HasKey(row, key) THEN ObjGet(row, key) ELSE Undefined

\* Object.keys(jsonData[0] || {}).find(key => key.toUpperCase().trim() === "STATION")
StationKeyOf(rows) ==
    LET first == IF rows # <<>> THEN rows[1] ELSE <<>>
        keys == ObjectKeys(first)
        hits == {i \in DOMAIN keys : Trim(ToUpperCase(keys[i])) = STATION}
    IN IF hits = {} THEN Undefined ELSE Str(keys[Least(hits)])

\* the test of `if (station)`
StationPresent(station) == Truthy(station)

\* the body of jsonData.forEach(row => ...) for one row
CountRow(counts, row, stationKey) ==
    LET station == RowGet(row, stationKey)
    IN IF StationPresent(station)
       THEN LET stationStr == Trim(ToStringJS(station))
            IN IF stationStr # <<>>
               THEN ObjSet(counts, stationStr,
                           (IF HasKey(counts, stationStr) THEN ObjGet(counts, stationStr) ELSE 0) + 1)
               ELSE counts
       ELSE counts

RECURSIVE CountRows(_, _, _)
CountRows(counts, rows, stationKey) ==
    IF rows = <<>> THEN counts
    ELSE CountRows(CountRow(counts, Head(rows), stationKey), Tail(rows), stationKey)

StationCountsOf(rows) == CountRows(<<>>, rows, StationKeyOf(rows).s)

----------------------------------------------------------------------------
(* Division aggregation *)

\* A JSON.parse result: an object of entries [k, v], a number, or null; an
\* entry's value is an array of strings or a number.
JObj(e) == [t |-> "obj", n |-> 0, e |-> e]
JNum(n) == [t |-> "num", n |-> n, e |-> <<>>]
JNull == [t |-> "null", n |-> 0, e |-> <<>>]
JArr(a) == [t |-> "arr", n |-> 0, a |-> a]
JInnerNum(n) == [t |-> "num", n |-> n, a |-> <<>>]

\* ToBoolean of a JSON.parse result
MappingTruthy(m) == m.t = "obj" \/ (m.t = "num" /\ m.n # 0)

\* Object.keys(divisionMapping).sort()
SortedDivisionsOf(mapping) ==
    SortDefault(IF mapping.t = "obj" THEN ObjectKeys(mapping.e) ELSE <<>>)

\* [...offices] throws a TypeError unless offices is iterable
Iterable(offices) == offices.t = "arr"

\* [...offices].sort((a, b) => a.localeCompare(b))
SortedOfficesOf(offices) == SortLocale(offices.a)

\* Object.keys(stationCounts).find(station => station.toLowerCase() === office.toLowerCase())
MatchingStation(counts, office) ==
    LET keys == ObjectKeys(counts)
        hits == {i \in DOMAIN keys : ToLowerCase(keys[i]) = ToLowerCase(office)}
    IN IF hits = {} THEN Undefined ELSE Str(keys[Least(hits)])

\* a variant of CountFor that adds up the counts of every matching key
CountForSum(counts, office) ==
    SumValues(SelectSeq(counts, LAMBDA entry : ToLowerCase(entry.k) = ToLowerCase(office)))

\* matchingStation ? stationCounts[matchingStation] : 0
CountFor(counts, office) ==
    LET matchingStation == MatchingStation(counts, office)
    IN IF Truthy(matchingStation) THEN ObjGet(counts, matchingStation.s) ELSE 0

OfficeDataOf(counts, offices) ==
    LET sortedOffices == SortedOfficesOf(offices)
    IN [i \in DOMAIN sortedOffices |->
            [office |-> sortedOffices[i], count |-> CountFor(counts, sortedOffices[i])]]

\* a variant of DivisionDataOf that keeps only the divisions with a counted member
DivisionDataObserved(counts, mapping) ==
    LET sortedDivisions == SortedDivisionsOf(mapping)
        all == [i \in DOMAIN sortedDivisions |->
                    [division |-> sortedDivisions[i],
                     officeData |-> OfficeDataOf(counts, ObjGet(mapping.e, sortedDivisions[i]))]]
    IN SelectSeq(all, LAMBDA group : \E j \in DOMAIN group.officeData : group.officeData[j].count > 0)

\* divisionData, in the order of sortedDivisions
DivisionDataOf(counts, mapping) ==
    LET sortedDivisions == SortedDivisionsOf(mapping)
    IN [i \in DOMAIN sortedDivisions |->
            [division |-> sortedDivisions[i],
             officeData |-> OfficeDataOf(counts, ObjGet(mapping.e, sortedDivisions[i]))]]

\* whether sortedDivisions.forEach throws before divisionData is complete
AggregationThrows(mapping) ==
    mapping.t = "obj" /\ \E i \in DOMAIN mapping.e : ~Iterable(mapping.e[i].v)

----------------------------------------------------------------------------
(* Grid layout *)

Office == <<"O", "f", "f", "i", "c", "e">>
NoOfToolkits == <<"N", "o", ".", " ", "o", "f", " ", "T", "o", "o", "l", "k", "i", "t", "s">>
Total == <<"T", "o", "t", "a", "l">>

\* A row of outputData is an object with the properties col0, col1, ...: a
\* function from the column numbers it has to their cells. The division at
\* (0-based) index i owns the columns 2i and 2i+1.
ColsOf(divisions) == UNION {{2 * (i - 1), 2 * (i - 1) + 1} : i \in DOMAIN divisions}

DivisionHeaderRowOf(dd) ==
    [c \in ColsOf(dd) |-> IF c % 2 = 0 THEN Str(dd[(c \div 2) + 1].division) ELSE Str(<<>>)]

ColumnHeaderRowOf(dd) ==
    [c \in ColsOf(dd) |-> IF c % 2 = 0 THEN Str(Office) ELSE Str(NoOfToolkits)]

\* Math.max(...Object.values(divisionData).map(d => d.length)); the -Infinity
\* of an empty argument list is any number below 0 for the loop it bounds
MaxRowsOf(dd) ==
    IF dd = <<>> THEN -1
    ELSE LET lens == {Len(dd[i].officeData) : i \in DOMAIN dd}
         IN CHOOSE m \in lens : \A l \in lens : l <= m

\* a variant of DataRowOf without the blank padding of a shorter division
DataRowUnpadded(dd, rowIndex) ==
    [c \in {x \in ColsOf(dd) : rowIndex < Len(dd[(x \div 2) + 1].officeData)} |->
        LET offices == dd[(c \div 2) + 1].officeData
        IN IF c % 2 = 0 THEN Str(offices[rowIndex + 1].office)
           ELSE Num(offices[rowIndex + 1].count)]

DataRowOf(dd, rowIndex) ==
    [c \in ColsOf(dd) |->
        LET offices == dd[(c \div 2) + 1].officeData
        IN IF rowIndex < Len(offices)
           THEN IF c % 2 = 0 THEN Str(offices[rowIndex + 1].office)
                ELSE Num(offices[rowIndex + 1].count)
           ELSE Str(<<>>)]

\* divisionData[division].reduce((sum, item) => sum + item.count, 0)
RECURSIVE SumCounts(_)
SumCounts(officeData) ==
    IF officeData = <<>> THEN 0
    ELSE SumCounts(SubSeq(officeData, 1, Len(officeData) - 1)) + officeData[Len(officeData)].count

\* a variant of TotalCell that counts the division's rows
TotalCellRows(officeData) == Num(Len(officeData))

TotalCell(officeData) == Num(SumCounts(officeData))

TotalRowOf(dd) ==
    [c \in ColsOf(dd) |-> IF c % 2 = 0 THEN Str(Total) ELSE TotalCell(dd[(c \div 2) + 1].officeData)]

OutputDataOf(dd) ==
    <<DivisionHeaderRowOf(dd), ColumnHeaderRowOf(dd)>>
        \o [r \in 1..MaxRowsOf(dd) |-> DataRowOf(dd, r - 1)]
        \o <<TotalRowOf(dd)>>

\* row[`col${c}`]
Cell(row, c) == IF c \in DOMAIN row THEN row[c] ELSE Undefined

\* the while loop of outputData.map(row => ...): pairs of cells are copied
\* until both properties of a pair are undefined
RECURSIVE RowToArray(_, _)
RowToArray(row, colIndex) ==
    IF Cell(row, colIndex) # Undefined \/ Cell(row, colIndex + 1) # Undefined
    THEN <<Cell(row, colIndex), Cell(row, colIndex + 1)>> \o RowToArray(row, colIndex + 2)
    ELSE <<>>

WsDataOf(dd) ==
    LET outputData == OutputDataOf(dd)
    IN [r \in DOMAIN outputData |-> RowToArray(outputData[r], 0)]

\* newWorksheet["!merges"] and newWorksheet["!cols"]
MergesOf(dd) ==
    [i \in DOMAIN dd |-> [s |-> [r |-> 0, c |-> 2 * (i - 1)], e |-> [r |-> 0, c |-> 2 * (i - 1) + 1]]]

RECURSIVE ColWidthsOf(_)
ColWidthsOf(dd) ==
    IF dd = <<>> THEN <<>> ELSE ColWidthsOf(Tail(dd)) \o <<[wch |-> 20], [wch |-> 15]>>

----------------------------------------------------------------------------
(* The whole iteration for one sheet *)

NoError == <<>>
MissingColumnMessage(sheetName) == <<"Sheet \"", sheetName, "\" does not have a STATION column">>
NotIterableMessage == <<"offices is not iterable">>

NoSheet == [name |-> "", ws_data |-> <<>>, merges |-> <<>>, cols |-> <<>>]

\* the mapping table the iteration reads: the divisionMapping of the closure
\* of the processExcel call
ProcessSheet(sheetName, rows, mapping) ==
    IF ~Truthy(StationKeyOf(rows))
    THEN [thrown |-> MissingColumnMessage(sheetName), sheet |-> NoSheet]
    ELSE IF AggregationThrows(mapping)
    THEN [thrown |-> NotIterableMessage, sheet |-> NoSheet]
    ELSE LET dd == DivisionDataOf(StationCountsOf(rows), mapping)
         IN [thrown |-> NoError,
             sheet |-> [name |-> sheetName, ws_data |-> WsDataOf(dd),
                        merges |-> MergesOf(dd), cols |-> ColWidthsOf(dd)]]

----------------------------------------------------------------------------
(* Values of the component state outside a run *)

NoFile == [name |-> "", kind |-> "none", sheets |-> <<>>]
NoLink == [download |-> <<>>, sheets |-> <<>>]
IdleRun == [pc |-> "idle", file |-> NoFile, divisionMapping |-> JNull]

----------------------------------------------------------------------------
(* The per-sheet pipeline as a state machine over one sheet and one table *)

SeqsUpTo(S, n) == UNION {[1..k -> S] : k \in 0..n}

ID == <<"I", "D">>
Headers == {STATION, <<" ", "S", "t", "a", "t", "i", "o", "n", " ">>,
            <<"S", "T", "A", "T", "I", "O", "N", "S">>}

\* a cell of the station column; Undefined is a blank cell, which
\* sheet_to_json leaves out of the row
CellValues == {Undefined, Num(0), Num(7), Str(<<"a">>), Str(<<"A">>),
               Str(<<" ", "a", " ">>), Str(<<" ">>)}
FewCellValues == {Str(<<"a">>), Str(<<"A">>), Num(7), Str(<<" ">>)}

RowOf(header, cell) ==
    <<[k |-> ID, v |-> Num(1)]>> \o (IF cell = Undefined THEN <<>> ELSE <<[k |-> header, v |-> cell]>>)

RowsOf(header, cells) == [i \in DOMAIN cells |-> RowOf(header, cells[i])]

ManySheets == {RowsOf(h, cells) : h \in Headers, cells \in SeqsUpTo(CellValues, MaxRecords)}
FewSheets == {RowsOf(STATION, cells) : cells \in SeqsUpTo(FewCellValues, MaxRecords - 1)}

MemberNames == {<<"a">>, <<"A">>, <<"b">>}
MemberLists == SeqsUpTo(MemberNames, MaxMembers)
DivisionOrders == {<<>>, <<<<"N">>>>, <<<<"S">>, <<"N">>>>}

ManyMappings ==
    UNION {{JObj([i \in DOMAIN ds |-> [k |-> ds[i], v |-> JArr(ms[i])]]) :
                ms \in [DOMAIN ds -> MemberLists]} : ds \in DivisionOrders}
FewMappings ==
    {JObj(<<[k |-> <<"N">>, v |-> JArr(<<<<"a">>, <<"7">>>>)]>>),
     JObj(<<[k |-> <<"N">>, v |-> JInnerNum(5)]>>)}

SheetName == "Sheet1"

SheetInit ==
    /\ file = NoFile
    /\ processing = FALSE
    /\ error = <<>>
    /\ success = <<>>
    /\ showMapping = FALSE
    /\ mappingText = ""
    /\ run = IdleRun
    /\ link = NoLink
    /\ \/ jsonData \in ManySheets /\ divisionMapping \in FewMappings
       \/ jsonData \in FewSheets /\ divisionMapping \in ManyMappings
    /\ stage = "sheet"
    /\ stationCounts = <<>>
    /\ divisionData = <<>>
    /\ ws_data = <<>>
    /\ thrown = NoError

\* App.jsx 99-103
MissingColumn ==
    /\ stage = "sheet"
    /\ ~Truthy(StationKeyOf(jsonData))
    /\ thrown' = MissingColumnMessage(SheetName)
    /\ stage' = "thrown"
    /\ UNCHANGED <<uiVars, jsonData, stationCounts, divisionData, ws_data>>

\* App.jsx 105-115
CountStations ==
    /\ stage = "sheet"
    /\ Truthy(StationKeyOf(jsonData))
    /\ stationCounts' = StationCountsOf(jsonData)
    /\ stage' = "counted"
    /\ UNCHANGED <<uiVars, jsonData, divisionData, ws_data, thrown>>

\* App.jsx 117-137
Aggregate ==
    /\ stage = "counted"
    /\ ~AggregationThrows(divisionMapping)
    /\ divisionData' = DivisionDataOf(stationCounts, divisionMapping)
    /\ stage' = "aggregated"
    /\ UNCHANGED <<uiVars, jsonData, stationCounts, ws_data, thrown>>

\* App.jsx 126, on a member list that cannot be spread
AggregateThrows ==
    /\ stage = "counted"
    /\ AggregationThrows(divisionMapping)
    /\ thrown' = NotIterableMessage
    /\ stage' = "thrown"
    /\ UNCHANGED <<uiVars, jsonData, stationCounts, divisionData, ws_data>>

\* App.jsx 139-208
Layout ==
    /\ stage = "aggregated"
    /\ ws_data' = WsDataOf(divisionData)
    /\ stage' = "laid"
    /\ UNCHANGED <<uiVars, jsonData, stationCounts, divisionData, thrown>>

SheetNext == MissingColumn \/ CountStations \/ Aggregate \/ AggregateThrows \/ Layout

SheetSpec == SheetInit /\ [][SheetNext]_vars

----------------------------------------------------------------------------
(* The component: files, mapping texts, handlers *)

Sheet(name, rows) == [name |-> name, rows |-> rows]
Workbook(name, sheets) == [name |-> name, kind |-> "workbook", sheets |-> sheets]

\* rows of a sheet with a STATION column, filled in every row
GoodRows == RowsOf(STATION, <<Str(<<"a">>), Str(<<"A">>), Str(<<"a">>)>>)
\* a STATION column whose cell is blank in the first data row
LateStationRows == RowsOf(STATION, <<Undefined, Str(<<"a">>)>>)
\* no STATION column
NoStationRows == RowsOf(<<"N", "A", "M", "E">>, <<Str(<<"a">>)>>)

Files ==
    {[name |-> "unreadable.xlsx", kind |-> "unreadable", sheets |-> <<>>],
     [name |-> "corrupt.xlsx", kind |-> "corrupt", sheets |-> <<>>],
     Workbook("one.xlsx", <<Sheet("Sheet1", GoodRows)>>),
     Workbook("two.xlsx", <<Sheet("Sheet1", GoodRows), Sheet("Sheet2", LateStationRows \o GoodRows)>>),
     Workbook("missing.xlsx", <<Sheet("Sheet1", GoodRows), Sheet("Sheet2", NoStationRows)>>),
     Workbook("late.xlsx", <<Sheet("Sheet1", LateStationRows), Sheet("Sheet2", NoStationRows)>>)}

\* Mapping texts a user can have in the textarea, and what JSON.parse makes
\* of each: a value, or a SyntaxError.
TextTable == "{\n  \"S\": [\n    \"b\",\n    \"a\"\n  ],\n  \"N\": []\n}"
TextOneDivision == "{\n  \"N\": [\n    \"A\"\n  ]\n}"
TextNumber == "42"
TextNumberMember == "{\n  \"N\": 5\n}"
TextNull == "null"
TextTruncated == "{\"N\": ["
TextDuplicateKey == "{\"N\": [\"a\"], \"N\": [\"A\"]}"

MappingTexts == {TextTable, TextOneDivision, TextNumber, TextNumberMember, TextNull,
                 TextTruncated, TextDuplicateKey}

ValueTable == JObj(<<[k |-> <<"S">>, v |-> JArr(<<<<"b">>, <<"a">>>>)], [k |-> <<"N">>, v |-> JArr(<<>>)]>>)
ValueOneDivision == JObj(<<[k |-> <<"N">>, v |-> JArr(<<<<"A">>>>)]>>)
ValueNumberMember == JObj(<<[k |-> <<"N">>, v |-> JInnerNum(5)]>>)

JSONParse(text) ==
    CASE text = TextTable -> [ok |-> TRUE, value |-> ValueTable]
      [] text = TextOneDivision -> [ok |-> TRUE, value |-> ValueOneDivision]
      [] text = TextDuplicateKey -> [ok |-> TRUE, value |-> ValueOneDivision]
      [] text = TextNumber -> [ok |-> TRUE, value |-> JNum(42)]
      [] text = TextNumberMember -> [ok |-> TRUE, value |-> ValueNumberMember]
      [] text = TextNull -> [ok |-> TRUE, value |-> JNull]
      [] OTHER -> [ok |-> FALSE, value |-> JNull]

\* JSON.stringify(value, null, 2)
JSONStringify(value) ==
    CASE value = ValueTable -> TextTable
      [] value = ValueOneDivision -> TextOneDivision
      [] value = JNum(42) -> TextNumber
      [] value = ValueNumberMember -> TextNumberMember
      [] OTHER -> TextNull

\* every value handleMappingUpdate can store
ParsedMappings == {JSONParse(t).value : t \in MappingTexts}

\* what loadMapping can find: a mapping saved by an earlier session (any
\* truthy value handleMappingUpdate can have set) or the bundled table
LoadableMappings == {v \in ParsedMappings : MappingTruthy(v)}

UpdatedMessage == <<"Division mapping updated successfully!">>
InvalidJSONMessage == <<"Invalid JSON format for division mapping">>
ReadErrorMessage == <<"The requested file could not be read">>
ParseErrorMessage == <<"File is password-protected">>
WriteErrorMessage == <<"Invalid array length">>
ErrorProcessing(message) == <<"Error processing file: ">> \o message
ProcessedMessage(n) == <<"Successfully processed ", n, " sheet(s)!">>

Init ==
    /\ file = NoFile
    /\ processing = FALSE
    /\ error = <<>>
    /\ success = <<>>
    /\ showMapping = FALSE
    /\ divisionMapping \in LoadableMappings
    /\ mappingText = JSONStringify(divisionMapping)
    /\ run = IdleRun
    /\ link = NoLink
    /\ stage = "none"
    /\ jsonData = <<>>
    /\ stationCounts = <<>>
    /\ divisionData = <<>>
    /\ ws_data = <<>>
    /\ thrown = NoError

\* App.jsx 49-56
HandleFileChange(selectedFile) ==
    /\ IF selectedFile # NoFile
       THEN /\ file' = selectedFile
            /\ error' = <<>>
            /\ success' = <<>>
       ELSE UNCHANGED <<file, error, success>>
    /\ UNCHANGED <<processing, showMapping, divisionMapping, mappingText, run, link, sheetVars>>

\* App.jsx 278
ToggleMapping ==
    /\ showMapping' = ~showMapping
    /\ UNCHANGED <<file, processing, error, success, divisionMapping, mappingText, run, link, sheetVars>>

\* App.jsx 285-292: the textarea exists while showMapping is true
SetMappingText(text) ==
    /\ showMapping
    /\ mappingText' = text
    /\ UNCHANGED <<file, processing, error, success, showMapping, divisionMapping, run, link, sheetVars>>

\* App.jsx 58-68
HandleMappingUpdate ==
    /\ showMapping
    /\ LET parsed == JSONParse(mappingText)
       IN IF parsed.ok
          THEN /\ divisionMapping' = parsed.value
               /\ showMapping' = FALSE
               /\ error' = <<>>
               /\ success' = UpdatedMessage
          ELSE /\ error' = InvalidJSONMessage
               /\ UNCHANGED <<divisionMapping, showMapping, success>>
    /\ UNCHANGED <<file, processing, mappingText, run, link, sheetVars>>

\* App.jsx 330: disabled={!file || !divisionMapping || processing}
ButtonDisabled == file = NoFile \/ ~MappingTruthy(divisionMapping) \/ processing

\* App.jsx 70-86: the click up to `await file.arrayBuffer()`; the call keeps
\* the file and the divisionMapping of the render it was created in
ProcessExcelStart ==
    /\ ~ButtonDisabled
    /\ file # NoFile
    /\ MappingTruthy(divisionMapping)
    /\ processing' = TRUE
    /\ error' = <<>>
    /\ success' = <<>>
    /\ run' = [pc |-> "reading", file |-> file, divisionMapping |-> divisionMapping]
    /\ link' = NoLink
    /\ UNCHANGED <<file, showMapping, divisionMapping, mappingText, sheetVars>>

\* a variant of RunMapping that reads the component's current state
LiveMapping == divisionMapping

\* the divisionMapping that workbook.SheetNames.forEach reads (App.jsx 118, 122)
RunMapping == run.divisionMapping

\* workbook.SheetNames.forEach: the sheets in order, up to the first throw
RECURSIVE ProcessSheets(_, _, _)
ProcessSheets(sheets, mapping, outputWorkbook) ==
    IF sheets = <<>> THEN [thrown |-> NoError, outputWorkbook |-> outputWorkbook]
    ELSE LET r == ProcessSheet(Head(sheets).name, Head(sheets).rows, mapping)
         IN IF r.thrown # NoError
            THEN [thrown |-> r.thrown, outputWorkbook |-> outputWorkbook]
            ELSE ProcessSheets(Tail(sheets), mapping, Append(outputWorkbook, r.sheet))

\* the try block up to XLSX.write (App.jsx 86-231), by the file of the call
\* and the mapping table its iterations read: what it throws, NoError if
\* nothing, and the sheets appended to outputWorkbook
TryBlock[f \in Files, mapping \in ParsedMappings] ==
    IF f.kind = "unreadable" THEN [thrown |-> ReadErrorMessage, outputWorkbook |-> <<>>]
    ELSE IF f.kind = "corrupt" THEN [thrown |-> ParseErrorMessage, outputWorkbook |-> <<>>]
    ELSE ProcessSheets(f.sheets, mapping, <<>>)

\* a variant of ProcessExcelFails without the finally block
ProcessExcelFailsWithoutFinally ==
    /\ run.pc = "reading"
    /\ \/ /\ TryBlock[run.file, RunMapping].thrown # NoError
          /\ error' = ErrorProcessing(TryBlock[run.file, RunMapping].thrown)
       \/ /\ TryBlock[run.file, RunMapping].thrown = NoError
          /\ error' = ErrorProcessing(WriteErrorMessage)
    /\ run' = IdleRun
    /\ UNCHANGED <<file, processing, success, showMapping, divisionMapping, mappingText, link, sheetVars>>

\* App.jsx 86-257, a throw inside the try block (by the file read, XLSX.read,
\* an iteration, or XLSX.write): catch and finally
ProcessExcelFails ==
    /\ run.pc = "reading"
    /\ \/ /\ TryBlock[run.file, RunMapping].thrown # NoError
          /\ error' = ErrorProcessing(TryBlock[run.file, RunMapping].thrown)
       \/ /\ TryBlock[run.file, RunMapping].thrown = NoError
          /\ error' = ErrorProcessing(WriteErrorMessage)
    /\ processing' = FALSE
    /\ run' = IdleRun
    /\ UNCHANGED <<file, success, showMapping, divisionMapping, mappingText, link, sheetVars>>

\* App.jsx 86-257, nothing thrown: download, success message, finally
ProcessExcelCompletes ==
    /\ run.pc = "reading"
    /\ TryBlock[run.file, RunMapping].thrown = NoError
    /\ link' = [download |-> <<"processed_", run.file.name>>,
                sheets |-> TryBlock[run.file, RunMapping].outputWorkbook]
    /\ success' = ProcessedMessage(Len(run.file.sheets))
    /\ processing' = FALSE
    /\ run' = IdleRun
    /\ UNCHANGED <<file, error, showMapping, divisionMapping, mappingText, sheetVars>>

Next ==
    \/ \E selectedFile \in Files \cup {NoFile} : HandleFileChange(selectedFile)
    \/ ToggleMapping
    \/ \E text \in MappingTexts : SetMappingText(text)
    \/ HandleMappingUpdate
    \/ ProcessExcelStart
    \/ ProcessExcelFails
    \/ ProcessExcelCompletes

Spec == Init /\ [][Next]_vars

\* the promise of file.arrayBuffer() settles and the continuation of
\* processExcel runs
FairSpec == Spec /\ WF_vars(ProcessExcelFails \/ ProcessExcelCompletes)

----------------------------------------------------------------------------
(* Properties of the per-sheet pipeline, checked under SheetSpec *)

\* the station value of a row of jsonData
StationOf(row) == RowGet(row, StationKeyOf(jsonData).s)

\* a station value that is present and, as a string, not blank after trimming
NonBlankStation(station) == station # Undefined /\ Trim(ToStringJS(station)) # <<>>

\* C2: for every sequence of records of a sheet that has a station field, the
\* counts of the station-count map add up to the number of records whose
\* station value, as a trimmed string, is non-empty (strings and numbers, the
\* number 0 included).
C2_CountsSumToNonBlankRecords ==
    stage = "counted" =>
        SumValues(stationCounts) =
            Cardinality({i \in DOMAIN jsonData : NonBlankStation(StationOf(jsonData[i]))})

\* the entries of the count map whose key equals the member without regard to case
MatchesOf(member) ==
    {i \in DOMAIN stationCounts : ToLowerCase(stationCounts[i].k) = ToLowerCase(member)}

\* the first input row whose trimmed station string is the key
FirstRowOf(key) ==
    Least({r \in DOMAIN jsonData :
              StationOf(jsonData[r]) # Undefined /\ Trim(ToStringJS(StationOf(jsonData[r]))) = key})

ShownCountIsFirstMatch(member, shown) ==
    LET matches == MatchesOf(member)
    IN /\ matches = {} => shown = 0
       /\ Cardinality(matches) = 1 => \A i \in matches : shown = stationCounts[i].v
       /\ Cardinality(matches) > 1 =>
            LET first == CHOOSE i \in matches :
                            \A j \in matches : FirstRowOf(stationCounts[i].k) <= FirstRowOf(stationCounts[j].k)
                sum == SumValues([i \in 1..Cardinality(matches) |->
                                    stationCounts[CHOOSE m \in matches :
                                                    Cardinality({x \in matches : x < m}) = i - 1]])
            IN /\ shown = stationCounts[first].v
               /\ first = Least(matches)
               /\ shown # sum

\* C3: the count shown for a member is the count of the one station key equal
\* to it without regard to case, 0 when there is none, and, when several keys
\* differ only in case, the count of the key first in the count map's order,
\* which is the key that occurs first in the input rows, never their sum.
C3_MemberCountIsFirstCaseInsensitiveMatch ==
    stage = "aggregated" =>
        \A d \in DOMAIN divisionData : \A j \in DOMAIN divisionData[d].officeData :
            ShownCountIsFirstMatch(divisionData[d].officeData[j].office,
                                   divisionData[d].officeData[j].count)

\* a member for which two keys differing in case were counted, the shown count
\* being that of the other casing
C3_Witness ==
    /\ stage = "aggregated"
    /\ \E d \in DOMAIN divisionData : \E j \in DOMAIN divisionData[d].officeData :
          LET member == divisionData[d].officeData[j].office
          IN /\ Cardinality(MatchesOf(member)) > 1
             /\ HasKey(stationCounts, member)
             /\ divisionData[d].officeData[j].count # ObjGet(stationCounts, member)

\* C4: within every division group the member names are unique and sorted
\* ascending, also when the mapping's member list repeats a name.
C4_MembersUniqueAndSorted ==
    stage = "aggregated" =>
        \A d \in DOMAIN divisionData :
            LET officeData == divisionData[d].officeData
            IN \A i, j \in DOMAIN officeData :
                  i < j => /\ officeData[i].office # officeData[j].office
                           /\ LocaleCompare(officeData[i].office, officeData[j].office) <= 0

\* the division names the mapping table declares
DeclaredDivisions == IF divisionMapping.t = "obj" THEN ObjectKeys(divisionMapping.e) ELSE <<>>

\* the blocks of the header row that carry the name: the name in the block's
\* first column, a blank in its second
HeaderBlocksOf(name) ==
    {b \in 1..(Len(ws_data[1]) \div 2) :
        ws_data[1][2 * b - 1] = Str(name) /\ ws_data[1][2 * b] = Str(<<>>)}

\* C5: every division the mapping table declares appears exactly once in the
\* aggregated output and exactly once, as its own column block, in the grid's
\* header row, whether or not any station matched one of its members.
C5_EveryDeclaredDivisionOnce ==
    stage = "laid" =>
        \A n \in DOMAIN DeclaredDivisions :
            LET name == DeclaredDivisions[n]
            IN /\ Cardinality({d \in DOMAIN divisionData : divisionData[d].division = name}) = 1
               /\ Cardinality(HeaderBlocksOf(name)) = 1

\* two declared divisions, one of them with members none of which was counted
C5_Witness ==
    /\ stage = "laid"
    /\ Len(DeclaredDivisions) = 2
    /\ stationCounts # <<>>
    /\ \E d \in DOMAIN divisionData :
          /\ divisionData[d].officeData # <<>>
          /\ \A j \in DOMAIN divisionData[d].officeData : divisionData[d].officeData[j].count = 0

\* the counts shown in the data rows of block b
RECURSIVE ShownSum(_, _)
ShownSum(b, r) ==
    IF r >= Len(ws_data) THEN 0
    ELSE (IF ws_data[r][2 * b].t = "num" THEN ws_data[r][2 * b].n ELSE 0) + ShownSum(b, r + 1)

\* C6: the last row of the grid holds, for every division, "Total" in the first
\* column of its block and, in the second, the sum of the counts shown in the
\* division's data rows; 0 for a division without members.
C6_TotalRowSumsShownCounts ==
    stage = "laid" =>
        LET totalRow == ws_data[Len(ws_data)]
        IN \A b \in DOMAIN divisionData :
              /\ totalRow[2 * b - 1] = Str(Total)
              /\ totalRow[2 * b] = Num(ShownSum(b, 3))
              /\ divisionData[b].officeData = <<>> => totalRow[2 * b] = Num(0)

\* a grid with a division without members and a division whose total is 2 or more
C6_Witness ==
    /\ stage = "laid"
    /\ \E b \in DOMAIN divisionData : divisionData[b].officeData = <<>>
    /\ \E b \in DOMAIN divisionData :
          /\ Len(divisionData[b].officeData) = 2
          /\ ws_data[Len(ws_data)][2 * b] = Num(ShownSum(b, 3))
          /\ ShownSum(b, 3) >= 2

\* C7: every row of the grid (division header, sub-header, data rows, total
\* row) has the same length, twice the number of divisions.
C7_GridIsRectangular ==
    stage = "laid" =>
        /\ Len(ws_data) >= 3
        /\ \A r \in DOMAIN ws_data : Len(ws_data[r]) = 2 * Len(DeclaredDivisions)

\* a grid of two divisions, one without members and one with two
C7_Witness ==
    /\ stage = "laid"
    /\ Len(ws_data) = 5
    /\ \E a, b \in DOMAIN divisionData :
          /\ divisionData[a].officeData = <<>>
          /\ Len(divisionData[b].officeData) = 2

----------------------------------------------------------------------------
(* Properties of the component, checked under Spec and FairSpec *)

\* a mapping table of the required shape: an object whose values are arrays
\* of member names
RequiredShape(value) ==
    value.t = "obj" /\ \A i \in DOMAIN value.e : value.e[i].v.t = "arr"

\* the sheet has a field whose name, upper-cased and trimmed, is STATION
HasStationField(rows) ==
    \E r \in DOMAIN rows : \E c \in DOMAIN rows[r] : Trim(ToUpperCase(rows[r][c].k)) = STATION

SheetsWithoutStation(workbook) ==
    {i \in DOMAIN workbook.sheets : ~HasStationField(workbook.sheets[i].rows)}

\* C1: a run over a workbook in which some sheet has no STATION field (under a
\* mapping table of the required shape) fails at the first such sheet in input
\* order: the error message names that sheet, no success message is set and
\* no download is triggered.
C1_FailsAtFirstSheetWithoutStation ==
    [][(/\ run.pc = "reading"
        /\ run'.pc = "idle"
        /\ run.file.kind = "workbook"
        /\ RequiredShape(run.divisionMapping)
        /\ SheetsWithoutStation(run.file) # {})
       => (/\ error' = ErrorProcessing(MissingColumnMessage(
                           run.file.sheets[Least(SheetsWithoutStation(run.file))].name))
           /\ success' = success
           /\ link' = link)]_vars

\* the text parses into a mapping table of the required shape
ParsesIntoRequiredShape(text) == JSONParse(text).ok /\ RequiredShape(JSONParse(text).value)

\* C8: handleMappingUpdate on a text that does not parse into the required
\* shape leaves the active mapping as it was and reports an error instead of
\* the success message.
C8_MalformedMappingRejected ==
    [][(HandleMappingUpdate /\ ~ParsesIntoRequiredShape(mappingText))
       => (/\ divisionMapping' = divisionMapping
           /\ error' # <<>>
           /\ success' # UpdatedMessage)]_vars

\* the sheets a run over the workbook produces under one mapping table
SheetsUnder(workbook, mapping) ==
    [i \in DOMAIN workbook.sheets |->
        ProcessSheet(workbook.sheets[i].name, workbook.sheets[i].rows, mapping).sheet]

\* C9: a run keeps the mapping table that was active when it started, whatever
\* handleMappingUpdate does while the file read is awaited, and every sheet of
\* the run is aggregated against that one table.
C9_RunUsesMappingActiveAtStart ==
    [][/\ ProcessExcelStart => run'.divisionMapping = divisionMapping
       /\ (run.pc = "reading" /\ run'.pc = "reading") => run'.divisionMapping = run.divisionMapping
       /\ ProcessExcelCompletes => link'.sheets = SheetsUnder(run.file, run.divisionMapping)
       /\ (ProcessExcelFails /\ run.file.kind = "workbook") =>
              error' \in {ErrorProcessing(ProcessSheets(run.file.sheets, run.divisionMapping, <<>>).thrown),
                          ErrorProcessing(WriteErrorMessage)}]_vars

\* a run over a workbook of two sheets is awaiting the file read, and the
\* active mapping table is no longer the one the run started with
C9_Witness ==
    /\ run.pc = "reading"
    /\ run.file.kind = "workbook"
    /\ Len(run.file.sheets) = 2
    /\ divisionMapping # run.divisionMapping
    /\ MappingTruthy(divisionMapping)
    /\ SheetsUnder(run.file, divisionMapping) # SheetsUnder(run.file, run.divisionMapping)

\* C10: a run sets processing, which holds exactly while the run is in flight;
\* every run resets it, however it ends; and while processing holds no second
\* run starts.
C10_ProcessingIsAlwaysReset ==
    /\ [](processing <=> run.pc = "reading")
    /\ [][ProcessExcelStart => processing']_vars
    /\ [][processing => ~ProcessExcelStart]_vars
    /\ [][(ProcessExcelFails \/ ProcessExcelCompletes) => ~processing']_vars
    /\ (processing ~> ~processing)

\* a run is in flight and the button is disabled although a file and a
\* mapping are there
C10_Witness ==
    /\ processing
    /\ run.pc = "reading"
    /\ file # NoFile
    /\ MappingTruthy(divisionMapping)
    /\ ButtonDisabled

====
